---- MODULE Spec2Model ----
(***************************************************************************)
(* The task-scheduling core of pypipe: the Task class of                   *)
(* pypipe/schedule/task.py (registry, construction with crash recovery,    *)
(* the guarded run call, status derived from the log) and the execution    *)
(* and logging mixins of pypipe/task/mixins.py.                            *)
(*                                                                         *)
(* The status log is one sequence of records shared by every task (and by  *)
(* other processes writing to the same file).  A task object lives in a    *)
(* slot i; id(i) is the value of Python's id() for that object.            *)
(***************************************************************************)
EXTENDS Integers, Sequences, FiniteSets, TLC

VARIABLES
    log,      \* the status log: records in append order (handler file, task.py:35-45)
    TASKS,    \* the registry: key -> slot of the instance (task.py:15)
    tasks,    \* the task objects: slot -> fields set by __new__/__init__
    calls,    \* invocations of __call__ in progress: the action is executing
    now,      \* the clock, in cadence windows (days)
    host,     \* the object carrying _ExecutionMixin/_LoggingMixin (mixins.py)
    declared, \* the hooks the declarative configuration gives to its tasks
    queue,    \* the records in the queue of the queue logger (task.py:47-54)
    emitted,  \* every record a worker has handed to its logger, in that order
    last      \* the most recent operation and what its caller observed

vars == <<log, TASKS, tasks, calls, now, host, declared, queue, emitted, last>>

----------------------------------------------------------------------------
(* Bounds of the model *)

MaxInst == 2     \* task objects constructed within one process lifetime
MaxLog == 3      \* records in the status log
MaxDay == 1      \* the clock runs over days 0..MaxDay
MaxCalls == 1    \* invocations in progress at the same time
MaxWorkers == 2  \* worker processes executing tasks at the same time
MaxEmitted == 4  \* records the workers hand to the queue logger

Insts == 1..MaxInst
Names == {"A", "B"}                  \* names a caller gives to tasks
HostName == "M"                      \* the name of the object carrying the mixins
None == "None"                       \* Python's None
Unbound == "<unbound>"               \* a local variable not yet assigned
IdNames == <<"id1", "id2", "id3", "id4", "id5", "id6">>
Outputs == {"x", "y"}                \* values an action returns
Failures == {"boom", "oops"}         \* ordinary failures (Exception) of an action
Interrupt == "KeyboardInterrupt"     \* a BaseException that is not an Exception
Hooks == {"on_success", "on_failure", "on_finish"}
Actions == {"run", "success", "fail", "terminate", "crash_release"}
ForeignActions == {"run", "terminate"}   \* records written by other processes
Executions == {None, "daily", "bogus"}   \* cadence expressions; "bogus" is invalid
Modes == {"keyword", "positional", "keyword_none", "omitted"}

\* id(instance): the identity of the object in slot i
id(i) == IdNames[i]

----------------------------------------------------------------------------
(* The status log *)

Rec(n, a, e, t) == [task_name |-> n, action |-> a, exc_text |-> e, asctime |-> t]
NoRecord == Rec(None, None, "", 0)

\* TaskAdapter.get_latest: the most recent record of the task, or none
RECURSIVE get_latest(_, _)
get_latest(l, n) ==
    IF l = <<>> THEN NoRecord
    ELSE IF l[Len(l)].task_name = n THEN l[Len(l)]
    ELSE get_latest(SubSeq(l, 1, Len(l) - 1), n)

\* A plausible bug: the status kept from the first read (a cached value)
status_cached(l, n) ==
    LET own == SelectSeq(l, LAMBDA r : r.task_name = n)
    IN IF own = <<>> THEN None ELSE own[1].action

\* Task.status (task.py:203-209), _LoggingMixin.status (mixins.py:178-184)
status(l, n) ==
    LET record == get_latest(l, n)
    IN IF record = NoRecord THEN None ELSE record.action

\* Task.is_running (task.py:199-201)
is_running(l, n) == status(l, n) = "run"

\* Task.log_running, log_failure, log_success (task.py:161-168); exc_info=True
\* makes the handler write the description of the failure being handled
log_running(l, n, t) == Append(l, Rec(n, "run", "", t))

\* A plausible bug: the fail record written without the failure's text
log_failure_no_text(l, n, e, t) == Append(l, Rec(n, "fail", "", t))

log_failure(l, n, e, t) == Append(l, Rec(n, "fail", e, t))

\* A plausible bug: the outcome written with the wrong action tag
log_success_as_run(l, n, t) == Append(l, Rec(n, "run", "", t))

log_success(l, n, t) == Append(l, Rec(n, "success", "", t))

\* __init__'s crash_release warning (task.py:125)
log_crash_release(l, n, t) == Append(l, Rec(n, "crash_release", "", t))

----------------------------------------------------------------------------
(* Conditions.  A condition is a conjunction: the sequence of its conjuncts; *)
(* AlwaysTrue is the empty conjunction.                                      *)

AlwaysTrue == <<>>
HasNotOccurred(n, period) == [cond |-> "HasNotOccurred", task |-> n, period |-> period]

\* pypipe.time.base.get_cycle: the period of a cadence expression; raises on
\* an expression it does not know
get_cycle_raises(value) == value = "bogus"
get_cycle(value) == value

\* whether instant t lies in the current window of the period, at time clock
InPeriod(period, t, clock) == t = clock

\* the occurrence event task_ran: the run records of the task
task_ran(l, n) == SelectSeq(l, LAMBDA r : r.task_name = n /\ r.action = "run")

\* evaluation of one conjunct, and of a condition
EvalAtom(c, l, clock) ==
    ~ \E k \in 1..Len(task_ran(l, c.task)) :
          InPeriod(c.period, task_ran(l, c.task)[k].asctime, clock)

evaluate(cond, l, clock) == \A k \in 1..Len(cond) : EvalAtom(cond[k], l, clock)

\* Values of the execution attribute of the mixin: None, a cadence string, or
\* a period made by period_factory (the set of the windows it intersects)
NoExecution == [type |-> "none", windows |-> {}]
Cadence(value) == [type |-> "str", windows |-> {value}]
Period(windows) == [type |-> "period", windows |-> windows]

\* period_factory.between/past/in_/from_/in_cycle (pypipe.time)
period_factory(f, arg) == Period({f \o " " \o arg})

\* period & period: the windows of both
PeriodAnd(p, q) == Period(p.windows \cup q.windows)

----------------------------------------------------------------------------
(* Task objects *)

NoObj == [init |-> "none", name |-> None, hooks |-> {}, start_cond |-> AlwaysTrue,
          execution |-> None, on_preprocess |-> Unbound, _notebook |-> Unbound]

NoLast == [op |-> "none", iid |-> 0, name |-> None, key |-> None, mode |-> None,
           result |-> None, exc |-> None, ret |-> None, value |-> None,
           outcome |-> None, hooks |-> {}, events |-> <<>>, log0 |-> <<>>,
           raising |-> {}, TASKS0 |-> <<>>, cond0 |-> <<>>, at |-> 0]

\* Every process lifetime builds its tasks from the same declarative
\* configuration: the hooks passed to Task(...) are fixed from the start
InitWith(hooksets) ==
    /\ declared \in hooksets
    /\ log = <<>>
    /\ TASKS = <<>>
    /\ tasks = [i \in Insts |-> NoObj]
    /\ calls = {}
    /\ queue = <<>>
    /\ emitted = <<>>
    /\ now = 0
    /\ host = [_execution |-> NoExecution, _execution_condition |-> AlwaysTrue,
               start_cond |-> AlwaysTrue, name |-> HostName]
    /\ last = NoLast

Init == InitWith(SUBSET Hooks)

\* room left in the log once every invocation in progress has written its outcome
Room == MaxLog - Len(log) - Cardinality(calls)

----------------------------------------------------------------------------
(* The registry and construction *)

\* get_task (task.py:17-18)
get_task(task) == TASKS[task]

\* the slot of a new instance: a free slot, or an identity beyond the slots
\* for an instance that is dropped before it is stored
FreeSlots == {i \in Insts : tasks[i].init = "none"}
NewSlot == IF FreeSlots = {} THEN MaxInst + 1
           ELSE CHOOSE i \in FreeSlots : \A j \in FreeSlots : i <= j

\* kwargs.get("name", id(instance)) in __new__ (task.py:76): only a name given
\* by keyword is in kwargs
registry_key(mode, nm, i) ==
    IF mode = "keyword" THEN nm
    ELSE IF mode = "keyword_none" THEN None
    ELSE id(i)

\* the name parameter as __init__ receives it, and self.name (task.py:117)
name_param(mode, nm) == IF mode \in {"keyword", "positional"} THEN nm ELSE None
self_name(mode, nm, i) == IF name_param(mode, nm) = None THEN id(i) ELSE name_param(mode, nm)

\* Task.execution setter (task.py:190-197), for a value get_cycle accepts
execution_setter(start_cond, value, n) ==
    IF value = None THEN start_cond
    ELSE Append(start_cond, HasNotOccurred(n, get_cycle(value)))

\* A plausible bug: the interrupted run is left as it is
crash_recovery_never(l, n, t) == l

crash_recovery_always(l, n, t) == log_crash_release(l, n, t)

\* the crash-recovery step of __init__ (task.py:121-125)
crash_recovery(l, n, t) ==
    IF status(l, n) = "run" THEN log_crash_release(l, n, t) ELSE l

\* Task.__new__ (task.py:66-82): the registry after storing the instance
new_stores(reg, key, i) == reg @@ (key :> i)

\* Task(...): __new__ then __init__ (task.py:66-125)
Construct(mode, nm, ex) ==
    LET i == NewSlot
        hk == declared
        key == registry_key(mode, nm, i)
        n == self_name(mode, nm, i)
        l0 == [last EXCEPT !.op = "construct", !.iid = i, !.name = n, !.key = key,
                    !.mode = mode, !.value = name_param(mode, nm), !.exc = None, !.ret = None,
                    !.outcome = None, !.hooks = hk, !.events = <<>>,
                    !.log0 = log, !.TASKS0 = TASKS, !.at = 0]
    IN IF key \in DOMAIN TASKS
       THEN \* raise KeyError: the instance is dropped
            /\ last' = [l0 EXCEPT !.result = "KeyError"]
            /\ UNCHANGED <<queue, emitted, log, TASKS, tasks, calls, now, host, declared>>
       ELSE /\ i \in Insts
            /\ TASKS' = new_stores(TASKS, key, i)
            /\ IF ex # None /\ get_cycle_raises(ex)
               THEN \* __init__ raises in the execution setter (task.py:115, 195)
                    /\ tasks' = [tasks EXCEPT ![i] =
                           [init |-> "partial", name |-> None, hooks |-> hk,
                            start_cond |-> AlwaysTrue, execution |-> ex,
                            on_preprocess |-> Unbound, _notebook |-> Unbound]]
                    /\ last' = [l0 EXCEPT !.result = "ValueError"]
                    /\ UNCHANGED log
               ELSE /\ tasks' = [tasks EXCEPT ![i] =
                           [init |-> "done", name |-> n, hooks |-> hk,
                            start_cond |-> execution_setter(AlwaysTrue, ex, n),
                            execution |-> ex,
                            on_preprocess |-> Unbound, _notebook |-> Unbound]]
                    /\ log' = crash_recovery(log, n, now)
                    /\ Len(log') <= MaxLog - Cardinality(calls)
                    /\ last' = [l0 EXCEPT !.result = "ok"]
            /\ UNCHANGED <<queue, emitted, calls, now, host, declared>>

\* The process ends (normally or by a crash) and a new one starts: the registry
\* of the module (task.py:15) is empty again, the log file is kept
Restart ==
    /\ TASKS # <<>>
    /\ TASKS' = <<>>
    /\ tasks' = [i \in Insts |-> NoObj]
    /\ calls' = {c \in calls : c.iid = 0}     \* those of peer processes go on
    /\ last' = [NoLast EXCEPT !.op = "restart"]
    /\ UNCHANGED <<queue, emitted, log, now, host, declared>>

\* Another process sharing the log file appends a record
ForeignAppend(n, a) ==
    /\ Room >= 1
    /\ log' = Append(log, Rec(n, a, IF a = "fail" THEN "boom" ELSE "", now))
    /\ last' = [NoLast EXCEPT !.op = "foreign", !.name = n, !.value = a]
    /\ UNCHANGED <<queue, emitted, TASKS, tasks, calls, now, host, declared>>

\* The clock reaches the next window
Tick ==
    /\ now < MaxDay
    /\ now' = now + 1
    /\ last' = [NoLast EXCEPT !.op = "tick"]
    /\ UNCHANGED <<queue, emitted, log, TASKS, tasks, calls, host, declared>>

\* task.status is read
StatusRead(i) ==
    /\ tasks[i].init = "done"
    /\ last' = [NoLast EXCEPT !.op = "status", !.iid = i, !.name = tasks[i].name,
                     !.value = status(log, tasks[i].name)]
    /\ UNCHANGED <<queue, emitted, log, TASKS, tasks, calls, now, host, declared>>

\* task.start_cond.evaluate() is called
EvaluateStart(i) ==
    /\ tasks[i].init = "done"
    /\ last' = [NoLast EXCEPT !.op = "evaluate", !.iid = i, !.name = tasks[i].name,
                     !.mode = IF tasks[i].execution # None THEN "cadence" ELSE None,
                     !.value = IF evaluate(tasks[i].start_cond, log, now)
                               THEN "true" ELSE "false"]
    /\ UNCHANGED <<queue, emitted, log, TASKS, tasks, calls, now, host, declared>>

\* get_task(key) is called: KeyError when the key is absent
GetTask(key) ==
    /\ last' = [NoLast EXCEPT !.op = "get_task", !.key = key,
                     !.result = IF key \in DOMAIN TASKS THEN "ok" ELSE "KeyError",
                     !.iid = IF key \in DOMAIN TASKS THEN get_task(key) ELSE 0]
    /\ UNCHANGED <<queue, emitted, log, TASKS, tasks, calls, now, host, declared>>

----------------------------------------------------------------------------
(* The run call, Task.__call__ (task.py:136-159) *)

Ev(e, a) == [e |-> e, arg |-> a]
LogError == "LogError"               \* a failure raised by the log backend
HookError(h) == h \o " raised"       \* a failure raised by a callback hook

\* what the action does when it ends
Results == [kind : {"return"}, val : Outputs]
           \cup [kind : {"raise"}, val : Failures \cup {Interrupt}]

\* the frame of a call once log_running has written its record and the action
\* has been invoked: the log, the steps taken so far, the local variable
\* status, and the pending exception or return value
Frame(l) == [log |-> l,
             events |-> <<Ev("log_running", ""), Ev("execute_action", "")>>,
             status |-> Unbound, exc |-> None, ret |-> None]

\* process_success (task.py:178-180); hr: the hooks that raise when called
process_success(t, f, output, hr) ==
    IF "on_success" \in t.hooks
    THEN LET f1 == [f EXCEPT !.events = Append(@, Ev("on_success", output))]
         IN IF "on_success" \in hr
            THEN [f1 EXCEPT !.exc = HookError("on_success")]
            ELSE f1
    ELSE f

\* process_finish (task.py:182-184)
process_finish(t, f, st, hr) ==
    IF "on_finish" \in t.hooks
    THEN LET f1 == [f EXCEPT !.events = Append(@, Ev("on_finish", st))]
         IN IF "on_finish" \in hr
            THEN [f1 EXCEPT !.exc = HookError("on_finish"), !.ret = None]
            ELSE f1
    ELSE f

\* the except clause (task.py:142-149); lf: the log backend raises on append.
\* self.exception (task.py:148) is written and never read; it is not kept
except_clause(t, f, exception, hr, lf, clock) ==
    LET f1 == [f EXCEPT !.status = "failed"]
    IN IF lf THEN [f1 EXCEPT !.exc = LogError]
       ELSE LET f2 == [f1 EXCEPT !.log = log_failure(@, t.name, exception, clock),
                                 !.events = Append(@, Ev("log_failure", exception))]
            IN IF "on_failure" \in t.hooks
               THEN LET f3 == [f2 EXCEPT !.events = Append(@, Ev("on_failure", exception))]
                    IN IF "on_failure" \in hr
                       THEN [f3 EXCEPT !.exc = HookError("on_failure")]
                       ELSE [f3 EXCEPT !.exc = exception]       \* raise
               ELSE [f2 EXCEPT !.exc = exception]               \* raise

else_clause_hook_first(t, f, output, hr, lf, clock) ==
    LET f1 == process_success(t, f, output, hr)
    IN IF f1.exc # None THEN [f1 EXCEPT !.status = "succeeded"]
       ELSE [f1 EXCEPT !.log = log_success(@, t.name, clock),
                       !.events = Append(@, Ev("log_success", "")),
                       !.status = "succeeded", !.ret = output]

\* the else clause (task.py:151-156)
else_clause(t, f, output, hr, lf, clock) ==
    IF lf THEN [f EXCEPT !.exc = LogError]
    ELSE LET f1 == [f EXCEPT !.log = log_success(@, t.name, clock),
                             !.events = Append(@, Ev("log_success", "")),
                             !.status = "succeeded"]
             f2 == process_success(t, f1, output, hr)
         IN IF f2.exc # None THEN f2 ELSE [f2 EXCEPT !.ret = output]    \* return output

\* the finally clause (task.py:158-159): reading an unassigned status raises
\* UnboundLocalError; an exception raised here replaces the pending exception
\* or return value
finally_clause(t, f, hr) ==
    IF f.status = Unbound
    THEN [f EXCEPT !.exc = "UnboundLocalError", !.ret = None]
    ELSE process_finish(t, f, f.status, hr)

\* __call__ from the moment the action ends: only an Exception enters the
\* except clause
call_body(t, l, res, hr, lf, clock) ==
    LET f0 == Frame(l)
        f1 == IF res.kind = "return" THEN else_clause(t, f0, res.val, hr, lf, clock)
              ELSE IF res.val \in Failures
                   THEN except_clause(t, f0, res.val, hr, lf, clock)
                   ELSE [f0 EXCEPT !.exc = res.val]
    IN finally_clause(t, f1, hr)

\* __call__ up to the invocation of the action: log_running, execute_action
Start(i) ==
    /\ tasks[i].init = "done"
    /\ Cardinality(calls) < MaxCalls
    /\ Room >= 2
    /\ log' = log_running(log, tasks[i].name, now)
    /\ calls' = calls \cup {[iid |-> i, at |-> Len(log')]}
    /\ last' = [NoLast EXCEPT !.op = "start", !.iid = i, !.name = tasks[i].name]
    /\ UNCHANGED <<queue, emitted, TASKS, tasks, now, host, declared>>

\* the action ends and __call__ runs to its end
Complete(c, res, hr, lf) ==
    LET t == tasks[c.iid]
        f == call_body(t, log, res, hr, lf, now)
    IN /\ log' = f.log
       /\ calls' = calls \ {c}
       /\ last' = [NoLast EXCEPT !.op = "call", !.iid = c.iid, !.name = t.name,
                        !.outcome = res.kind, !.value = res.val,
                        !.result = IF f.exc = None THEN "returned" ELSE "raised",
                        !.exc = f.exc, !.ret = f.ret, !.hooks = t.hooks,
                        !.raising = hr, !.events = f.events, !.log0 = log,
                        !.at = c.at, !.mode = IF lf THEN "logfault" ELSE None]
       /\ UNCHANGED <<queue, emitted, TASKS, tasks, now, host, declared>>

Finish(c, res, hr) == Complete(c, res, hr, FALSE)

\* as Finish, with a log backend that raises when the outcome is appended
FinishLogFault(c, res, hr) == Complete(c, res, hr, TRUE)

----------------------------------------------------------------------------

\* Tasks are declared by keyword name, without cadence; they are invoked, the
\* process restarts, other processes write to the log.  The log backend
\* accepts every append
Next ==
    \/ \E nm \in Names : Construct("keyword", nm, None)
    \/ Restart
    \/ \E n \in Names, a \in ForeignActions : ForeignAppend(n, a)
    \/ \E i \in Insts : StatusRead(i)
    \/ \E i \in Insts : Start(i)
    \/ \E c \in calls, res \in Results : \E hr \in SUBSET tasks[c.iid].hooks :
           Finish(c, res, hr)

Spec == Init /\ [][Next]_vars

\* One process alone on the log: nothing is appended but by its own tasks
NextAlone ==
    \/ \E nm \in Names : Construct("keyword", nm, None)
    \/ Restart
    \/ \E i \in Insts : Start(i)
    \/ \E c \in calls, res \in Results : \E hr \in SUBSET tasks[c.iid].hooks :
           Finish(c, res, hr)

SpecAlone == Init /\ [][NextAlone]_vars

\* The same, with a log backend that may raise when an outcome is appended
NextLogFault ==
    \/ Next
    \/ \E c \in calls, res \in Results : \E hr \in SUBSET tasks[c.iid].hooks :
           FinishLogFault(c, res, hr)

SpecLogFault == Init /\ [][NextLogFault]_vars

\* The registry: tasks without hooks are declared with their name given in
\* every way the signature allows and with every cadence expression, looked
\* up, and found interrupted; nothing is invoked
InitRegistry == InitWith({{}})

Keys == Names \cup {None} \cup {id(i) : i \in Insts}

NextRegistry ==
    \/ \E mode \in Modes, nm \in Names, ex \in Executions : Construct(mode, nm, ex)
    \/ Restart
    \/ \E n \in Names : ForeignAppend(n, "run")
    \/ \E key \in Keys : GetTask(key)

SpecRegistry == InitRegistry /\ [][NextRegistry]_vars

\* Cadence: tasks without hooks are declared with or without a daily cadence,
\* invoked, and asked whether they may start while the clock advances
NextCadence ==
    \/ \E nm \in Names, ex \in {None, "daily"} : Construct("keyword", nm, ex)
    \/ Restart
    \/ Tick
    \/ \E i \in Insts : EvaluateStart(i)
    \/ \E i \in Insts : Start(i)
    \/ \E c \in calls, res \in Results : Finish(c, res, {})

SpecCadence == InitRegistry /\ [][NextCadence]_vars

----------------------------------------------------------------------------
(* The mixins of pypipe/task/mixins.py, carried by one object, the host *)

Builders == {"between", "every", "in_", "from_", "in_cycle"}

\* the period_factory function each builder calls (mixins.py:36,45,54,63,72)
FactoryOf(b) == IF b = "every" THEN "past" ELSE b

\* _ExecutionMixin.execution setter (mixins.py:18-32): it assigns _execution
\* and _execution_condition, the negation of task_ran over the cycle of a
\* string or over the period given, and nothing else
mixin_execution_setter(h, value) ==
    IF value.type = "none"
    THEN [h EXCEPT !._execution = value, !._execution_condition = AlwaysTrue]
    ELSE [h EXCEPT !._execution = value,
                   !._execution_condition = <<HasNotOccurred(h.name, value)>>]

\* between, every, in_, from_, in_cycle (mixins.py:35-78)
builder(h, b, arg) ==
    LET execution == period_factory(FactoryOf(b), arg)
    IN IF h._execution.type = "none"
       THEN mixin_execution_setter(h, execution)
       ELSE mixin_execution_setter(h, PeriodAnd(h._execution, execution))

\* the conjuncts that gate the start of the host: those of start_cond and
\* of the execution condition
GatingConjuncts(h) == h.start_cond \o h._execution_condition

\* host.execution = value
HostSetExecution(value) ==
    /\ host' = mixin_execution_setter(host, value)
    /\ last' = [NoLast EXCEPT !.op = "execution", !.name = host.name,
                     !.mode = IF value.type = "none" THEN None ELSE "refine",
                     !.cond0 = GatingConjuncts(host)]
    /\ UNCHANGED <<queue, emitted, log, TASKS, tasks, calls, now, declared>>

\* host.between(...), host.every("day"), ...  When execution holds a string,
\* `self.execution &= execution` (mixins.py:41) applies & to a str and a
\* period: the period class, which is not part of this code, either supports
\* it or the call raises TypeError and nothing is assigned
HostBuilder(b) ==
    /\ \/ /\ host' = builder(host, b, "day")
          /\ last' = [NoLast EXCEPT !.op = b, !.name = host.name, !.mode = "refine",
                           !.result = "ok", !.cond0 = GatingConjuncts(host)]
       \/ /\ host._execution.type = "str"
          /\ host' = host
          /\ last' = [NoLast EXCEPT !.op = b, !.name = host.name,
                           !.result = "TypeError", !.cond0 = GatingConjuncts(host)]
    /\ UNCHANGED <<queue, emitted, log, TASKS, tasks, calls, now, declared>>

\* _LoggingMixin.log_running, log_success, log_failure, log_termination
\* (mixins.py:161-172), called while the host runs
HostLog(a) ==
    /\ Room >= 1
    /\ log' = Append(log, Rec(host.name, a, IF a = "fail" THEN "boom" ELSE "", now))
    /\ last' = [NoLast EXCEPT !.op = "log", !.name = host.name, !.value = a]
    /\ UNCHANGED <<queue, emitted, TASKS, tasks, calls, now, host, declared>>

\* host.start_cond.evaluate() is called
HostEvaluateStart ==
    /\ last' = [NoLast EXCEPT !.op = "evaluate", !.name = host.name,
                     !.mode = IF host._execution.type # "none" THEN "cadence" ELSE None,
                     !.value = IF evaluate(host.start_cond, log, now)
                               THEN "true" ELSE "false"]
    /\ UNCHANGED <<queue, emitted, log, TASKS, tasks, calls, now, host, declared>>

NextMixin ==
    \/ \E value \in {NoExecution, Cadence("daily")} : HostSetExecution(value)
    \/ \E b \in Builders : HostBuilder(b)
    \/ \E a \in {"run", "success", "fail", "terminate"} : HostLog(a)
    \/ HostEvaluateStart
    \/ Tick

SpecMixin == InitRegistry /\ [][NextMixin]_vars

----------------------------------------------------------------------------
(* The notebook task, JupyterTask (task.py:225-247): __call__ of Task with  *)
(* execute_action, process_success and process_finish overridden.  The      *)
(* attribute on_preprocess is set by no constructor: it is unbound until    *)
(* the caller assigns it.                                                   *)

Notebook == "notebook"               \* the handle JupyterNotebook(self.action)

\* where execute_action raises: loading the notebook, the pre-process hook,
\* executing the notebook; or nowhere
NotebookResults == {"load", "preprocess", "execute", "ok"}

\* task.on_preprocess = v, by the caller
SetPreprocess(i, v) ==
    /\ tasks[i].init = "done"
    /\ tasks[i].on_preprocess # v
    /\ tasks' = [tasks EXCEPT ![i].on_preprocess = v]
    /\ last' = [NoLast EXCEPT !.op = "on_preprocess", !.iid = i, !.value = v]
    /\ UNCHANGED <<queue, emitted, log, TASKS, calls, now, host, declared>>

\* JupyterTask.execute_action (task.py:227-234): the frame after it, and the
\* attribute _notebook
Jupyter_execute_action(t, f, res) ==
    IF res = "load"
    THEN [f |-> [f EXCEPT !.exc = "boom"], nb |-> t._notebook]
    ELSE IF t.on_preprocess = Unbound
    THEN [f |-> [f EXCEPT !.exc = "AttributeError"], nb |-> t._notebook]
    ELSE LET f1 == IF t.on_preprocess = None THEN f
                   ELSE [f EXCEPT !.events = Append(@, Ev("on_preprocess", Notebook))]
         IN IF t.on_preprocess # None /\ res = "preprocess"
            THEN [f |-> [f1 EXCEPT !.exc = HookError("on_preprocess")], nb |-> t._notebook]
            ELSE IF res = "execute"
            THEN [f |-> [f1 EXCEPT !.exc = "boom"], nb |-> Notebook]
            ELSE [f |-> f1, nb |-> Notebook]

\* JupyterTask.process_success (task.py:240-242)
Jupyter_process_success(t, f, nb, hr) ==
    IF "on_success" \in t.hooks
    THEN LET f1 == [f EXCEPT !.events = Append(@, Ev("on_success", nb))]
         IN IF "on_success" \in hr
            THEN [f1 EXCEPT !.exc = HookError("on_success")]
            ELSE f1
    ELSE f

\* JupyterTask.process_finish (task.py:244-247): reading or deleting an
\* attribute _notebook that is not there raises AttributeError
Jupyter_process_finish(t, f, nb, st, hr) ==
    IF nb = Unbound
    THEN [f |-> [f EXCEPT !.exc = "AttributeError", !.ret = None], nb |-> nb]
    ELSE IF "on_finish" \in t.hooks
    THEN LET f1 == [f EXCEPT !.events = Append(@, Ev("on_finish", st))]
         IN IF "on_finish" \in hr
            THEN [f |-> [f1 EXCEPT !.exc = HookError("on_finish"), !.ret = None], nb |-> nb]
            ELSE [f |-> f1, nb |-> Unbound]
    ELSE [f |-> f, nb |-> Unbound]

\* __call__ (task.py:136-159) of a notebook task
Jupyter_call(t, l, res, hr, clock) ==
    LET f0 == Frame(log_running(l, t.name, clock))
        a == Jupyter_execute_action(t, f0, res)
        f1 == IF a.f.exc # None
              THEN except_clause(t, [a.f EXCEPT !.exc = None], a.f.exc, hr, FALSE, clock)
              ELSE LET g1 == [a.f EXCEPT !.log = log_success(@, t.name, clock),
                                         !.events = Append(@, Ev("log_success", "")),
                                         !.status = "succeeded"]
                   IN Jupyter_process_success(t, g1, a.nb, hr)
    IN Jupyter_process_finish(t, f1, a.nb, f1.status, hr)

\* a notebook task is invoked and the call runs to its end
NotebookCall(i, res, hr) ==
    LET t == tasks[i]
        r == Jupyter_call(t, log, res, hr, now)
    IN /\ t.init = "done"
       /\ calls = {}
       /\ Room >= 2
       /\ res = "preprocess" => t.on_preprocess \notin {Unbound, None}
       /\ log' = r.f.log
       /\ tasks' = [tasks EXCEPT ![i]._notebook = r.nb]
       /\ last' = [NoLast EXCEPT !.op = "notebook_call", !.iid = i, !.name = t.name,
                        !.value = res,
                        !.result = IF r.f.exc = None THEN "returned" ELSE "raised",
                        !.exc = r.f.exc, !.hooks = t.hooks,
                        !.raising = hr, !.events = r.f.events, !.log0 = log,
                        !.at = Len(log) + 1]
       /\ UNCHANGED <<queue, emitted, TASKS, calls, now, host, declared>>

\* Notebook tasks are declared, given a pre-process hook or none, and invoked
NextNotebook ==
    \/ \E nm \in Names : Construct("keyword", nm, None)
    \/ \E i \in Insts, v \in {None, "hook"} : SetPreprocess(i, v)
    \/ \E i \in Insts, res \in NotebookResults : \E hr \in SUBSET tasks[i].hooks :
           NotebookCall(i, res, hr)

SpecNotebook == Init /\ [][NextNotebook]_vars

----------------------------------------------------------------------------
(* Several processes sharing one log.  Each process has its own registry    *)
(* and its own instances; a peer process that has constructed its instance  *)
(* of a task invokes it, writing to the same log (task.py:27-45).  A call   *)
(* of a peer has iid 0; its task is the one named in its run record.        *)

\* the instance a peer process holds of the task whose run record stands at
\* position at
PeerTask(at) == [name |-> log[at].task_name, hooks |-> declared]

\* a peer process invokes its instance of task n: log_running, execute_action
PeerStart(n) ==
    /\ Cardinality(calls) < MaxCalls
    /\ Room >= 2
    /\ log' = log_running(log, n, now)
    /\ calls' = calls \cup {[iid |-> 0, at |-> Len(log')]}
    /\ last' = [NoLast EXCEPT !.op = "peer_start", !.name = n, !.log0 = log]
    /\ UNCHANGED <<queue, emitted, TASKS, tasks, now, host, declared>>

\* the action ends in the peer process and its __call__ runs to its end
PeerFinish(c, res, hr) ==
    LET t == PeerTask(c.at)
        f == call_body(t, log, res, hr, FALSE, now)
    IN /\ c.iid = 0
       /\ log' = f.log
       /\ calls' = calls \ {c}
       /\ last' = [NoLast EXCEPT !.op = "peer_call", !.name = t.name,
                        !.outcome = res.kind, !.value = res.val,
                        !.result = IF f.exc = None THEN "returned" ELSE "raised",
                        !.exc = f.exc, !.ret = f.ret, !.hooks = t.hooks,
                        !.raising = hr, !.events = f.events, !.log0 = log,
                        !.at = c.at]
       /\ UNCHANGED <<queue, emitted, TASKS, tasks, now, host, declared>>

\* This process declares its tasks and restarts while peer processes invoke
\* their instances of the same tasks
NextShared ==
    \/ \E nm \in Names : Construct("keyword", nm, None)
    \/ Restart
    \/ \E n \in Names : PeerStart(n)
    \/ \E c \in calls, res \in Results : PeerFinish(c, res, {})

SpecShared == InitRegistry /\ [][NextShared]_vars

----------------------------------------------------------------------------
(* The queue logger (task.py:47-54).  In a worker process the handlers of   *)
(* the task logger are replaced by one QueueHandler, so the records a task  *)
(* copy logs go to the queue and not to the log; one listener takes the     *)
(* records off the queue and hands them to the original task through        *)
(* log_record (mixins.py:174-176).                                          *)

set_queue_logger_lifo(q, records) == records \o q

\* the logger after set_queue_logger(queue) handling records: its only
\* handler puts each record at the tail of the queue
set_queue_logger(q, records) == q \o records

log_record_dropped(l, record) == l

\* log_record (mixins.py:174-176): the logger of the original task handles
\* the record, which its handler appends to the log
log_record(l, record) == Append(l, record)

\* the records of task n in l that an invocation writes
RunRecords(l, n) ==
    SelectSeq(l, LAMBDA r : r.task_name = n /\ r.action \in {"run", "success", "fail"})

\* a worker invokes its copy of task i: log_running, execute_action.  The
\* dispatch loop gives a task to one worker at a time
WorkerStart(i) ==
    /\ tasks[i].init = "done"
    /\ Cardinality(calls) < MaxWorkers
    /\ \A c \in calls : tasks[c.iid].name # tasks[i].name
    /\ Len(emitted) + Cardinality(calls) + 2 <= MaxEmitted
    /\ LET records == log_running(<<>>, tasks[i].name, now)
       IN /\ queue' = set_queue_logger(queue, records)
          /\ emitted' = emitted \o records
    /\ calls' = calls \cup {[iid |-> i, at |-> Len(emitted')]}
    /\ last' = [NoLast EXCEPT !.op = "worker_start", !.iid = i, !.name = tasks[i].name,
                     !.log0 = log]
    /\ UNCHANGED <<log, TASKS, tasks, now, host, declared>>

\* the action ends in the worker and __call__ runs to its end
WorkerFinish(c, res, hr) ==
    LET t == tasks[c.iid]
        f == call_body(t, <<>>, res, hr, FALSE, now)
    IN /\ queue' = set_queue_logger(queue, f.log)
       /\ emitted' = emitted \o f.log
       /\ calls' = calls \ {c}
       /\ last' = [NoLast EXCEPT !.op = "worker_call", !.iid = c.iid, !.name = t.name,
                        !.outcome = res.kind, !.value = res.val,
                        !.result = IF f.exc = None THEN "returned" ELSE "raised",
                        !.exc = f.exc, !.ret = f.ret, !.hooks = t.hooks,
                        !.raising = hr, !.events = f.events, !.log0 = log,
                        !.at = c.at]
       /\ UNCHANGED <<log, TASKS, tasks, now, host, declared>>

\* the listener takes the record at the head of the queue and replays it
\* into the log through log_record of the original task
Replay ==
    /\ queue # <<>>
    /\ log' = log_record(log, Head(queue))
    /\ queue' = Tail(queue)
    /\ last' = [NoLast EXCEPT !.op = "log_record", !.name = Head(queue).task_name,
                     !.value = Head(queue).action, !.log0 = log]
    /\ UNCHANGED <<emitted, TASKS, tasks, calls, now, host, declared>>

\* Tasks are declared in the owning process, workers execute copies of them
\* concurrently, the listener replays the queue
NextQueue ==
    \/ \E nm \in Names : Construct("keyword", nm, None)
    \/ \E i \in Insts : WorkerStart(i)
    \/ \E c \in calls, res \in Results : WorkerFinish(c, res, {})
    \/ Replay

SpecQueue == InitRegistry /\ [][NextQueue]_vars

----------------------------------------------------------------------------
(* Properties *)

\* the action tag of the record of task n that stands last in log l
LatestAction(l, n) ==
    LET own == {k \in 1..Len(l) : l[k].task_name = n}
    IN IF own = {} THEN None
       ELSE l[CHOOSE k \in own : \A j \in own : j <= k].action

\* the records the invocation described by last has appended: its run record
\* and what it wrote after the action ended
Appended == <<last.log0[last.at]>> \o SubSeq(log, Len(last.log0) + 1, Len(log))

\* the arguments of the calls of hook h in the invocation described by last
HookCalls(h) == SelectSeq(last.events, LAMBDA ev : ev.e = h)

\* C1: whenever status(task) is read, the value read is the action tag of the
\* most recent log record of that task, whoever appended it (this process or
\* another one sharing the log), and it is None exactly when the task has no
\* record.
C1_StatusIsLatestRecord ==
    last.op = "status" =>
        /\ last.value = LatestAction(log, last.name)
        /\ (last.value = None) <=> (\A k \in 1..Len(log) : log[k].task_name # last.name)

\* a status read that has to skip a later record of another task, appended by
\* another process, to find the task's own latest record
C1_Witness ==
    /\ last.op = "status"
    /\ last.value = "success"
    /\ Len(log) = 3
    /\ log[3].task_name # last.name
    /\ log[3].action = "terminate"

\* C2 as claimed: an invocation whose action returns normally appends exactly
\* run then success (success without error text), returns the action's output
\* to the caller, and status(task) is "success" right afterwards.
C2_ReturnsOutputAlways ==
    (last.op = "call" /\ last.outcome = "return") =>
        /\ Appended = <<Rec(last.name, "run", "", Appended[1].asctime),
                        Rec(last.name, "success", "", now)>>
        /\ last.result = "returned"
        /\ last.ret = last.value
        /\ status(log, last.name) = "success"

\* C2 as amended: an invocation whose action returns normally appends exactly
\* run then success (success without error text) and status(task) is "success"
\* right afterwards; it returns the action's output when neither on_success
\* nor on_finish raises, and otherwise the failure of the hook that raised
\* last reaches the caller instead.
C2_SuccessRecordsAndOutput ==
    (last.op = "call" /\ last.outcome = "return") =>
        /\ Appended = <<Rec(last.name, "run", "", Appended[1].asctime),
                        Rec(last.name, "success", "", now)>>
        /\ status(log, last.name) = "success"
        /\ IF last.raising \cap {"on_success", "on_finish"} = {}
           THEN last.result = "returned" /\ last.ret = last.value
           ELSE /\ last.result = "raised"
                /\ last.exc = IF "on_finish" \in last.raising
                              THEN HookError("on_finish")
                              ELSE HookError("on_success")

\* a successful invocation of a task with all three hooks, none raising
C2_Witness ==
    /\ last.op = "call"
    /\ last.outcome = "return"
    /\ last.hooks = Hooks
    /\ last.raising = {}
    /\ last.ret = "y"

C4_OnFinishExactlyOnce ==
    (last.op = "call" /\ "on_finish" \in last.hooks) =>
        HookCalls("on_finish") =
            <<Ev("on_finish", IF last.outcome = "return" THEN "succeeded" ELSE "failed")>>

\* C5: on_finish is invoked, once, on every exit path in which the action
\* raises, the success or fail record cannot be appended, or on_success or
\* on_failure raises.
C5_OnFinishOnEveryExit ==
    ( /\ last.op = "call"
      /\ "on_finish" \in last.hooks
      /\ \/ last.outcome = "raise"
         \/ last.mode = "logfault"
         \/ last.raising \cap {"on_success", "on_failure"} # {} ) =>
        Len(HookCalls("on_finish")) = 1

\* C6: when the latest record of the task is "run" at construction, the
\* construction appends exactly one record, a crash_release of that task, so
\* that status(task) is "crash_release" afterwards; the action is not invoked
\* and no invocation of the task is in progress.
C6_CrashRelease ==
    (last.op = "construct" /\ last.result = "ok"
        /\ LatestAction(last.log0, last.name) = "run") =>
        /\ Len(log) = Len(last.log0) + 1
        /\ SubSeq(log, 1, Len(last.log0)) = last.log0
        /\ log[Len(log)].task_name = last.name
        /\ log[Len(log)].action = "crash_release"
        /\ status(log, last.name) = "crash_release"
        /\ last.events = <<>>
        /\ \A c \in calls : c.iid # last.iid

\* a task constructed while the last record of the log is its own dangling run
C6_Witness ==
    /\ last.op = "construct"
    /\ last.result = "ok"
    /\ Len(last.log0) >= 1
    /\ last.log0[Len(last.log0)] = Rec(last.name, "run", "", 0)
    /\ Len(log) = Len(last.log0) + 1

\* C7: constructing a task with a name that is already present in the
\* registry fails with the duplicate-name error (KeyError) and leaves the
\* registry unchanged.
C7_DuplicateNameFails ==
    (last.op = "construct" /\ last.value # None /\ last.value \in DOMAIN last.TASKS0) =>
        /\ last.result = "KeyError"
        /\ TASKS = last.TASKS0

\* C8: every successfully constructed task is stored in the registry under
\* its own name, so that get_task(t.name) returns it, however the name was
\* supplied; and constructing a task without a name never collides.
C8_RegistryKeyIsName ==
    /\ \A i \in Insts : tasks[i].init = "done" =>
           /\ tasks[i].name \in DOMAIN TASKS
           /\ get_task(tasks[i].name) = i
    /\ (last.op = "construct" /\ last.value = None) => last.result # "KeyError"

\* C9: in every invocation whose action raises, the failure that reaches the
\* invoker is the action's own failure, whatever on_failure and on_finish do.
C9_OriginalFailureReachesInvoker ==
    (last.op = "call" /\ last.outcome = "raise") =>
        (last.result = "raised" /\ last.exc = last.value)

\* C10: for a task created with a cadence and no other start condition,
\* start_cond evaluates to true exactly while the log holds no run of the
\* task inside the current cadence window: true before the first invocation
\* of the window, false from that invocation on, true again in the next
\* window.
C10_CadenceGatesStart ==
    (last.op = "evaluate" /\ last.mode = "cadence") =>
        (last.value = "true" <=>
            ~ \E k \in 1..Len(log) :
                  /\ log[k].task_name = last.name
                  /\ log[k].action = "run"
                  /\ log[k].asctime = now)

\* C11: builder calls and the execution setter only refine the start
\* condition conjunctively: after each such call the conjuncts that gate the
\* start are those that gated it before the call, all kept, and one new
\* predicate.
C11_ConjunctiveRefinement ==
    (last.mode = "refine" /\ last.op \in Builders \cup {"execution"}) =>
        /\ Len(GatingConjuncts(host)) = Len(last.cond0) + 1
        /\ SubSeq(GatingConjuncts(host), 1, Len(last.cond0)) = last.cond0

\* l is a leading part of m
IsPrefix(l, m) == Len(l) <= Len(m) /\ SubSeq(m, 1, Len(l)) = l

C13_ReplayGivesWorkerOutcome ==
    /\ \A n \in Names :
          (/\ last.op = "log_record" /\ last.name = n
           /\ \A c \in calls : tasks[c.iid].name # n
           /\ RunRecords(queue, n) = <<>>)
          => LET own == RunRecords(emitted, n)
             IN status(log, n) = own[Len(own)].action
    /\ last.op \in {"worker_start", "worker_call"} =>
          \A n \in Names : status(log, n) = status(last.log0, n)

\* the last record of a worker's run that ended in success or failure has
\* been replayed, the original having been in state run before
C13_Witness ==
    /\ last.op = "log_record" /\ last.value \in {"success", "fail"}
    /\ \A c \in calls : tasks[c.iid].name # last.name
    /\ RunRecords(queue, last.name) = <<>>
    /\ status(last.log0, last.name) = "run"
    /\ status(log, last.name) = last.value

\* C14: a crash_release record is appended only for a run interrupted in a
\* prior process lifetime: also when several processes sharing one log each
\* construct their own instance of a task, no crash_release record of a task
\* is appended while an invocation of that task is in progress, that is,
\* after its run record and before its success or fail record.
C14_NoReleaseDuringInvocation ==
    \A c \in calls : \A k \in (c.at + 1)..Len(log) :
        ~(log[k].action = "crash_release" /\ log[k].task_name = log[c.at].task_name)

\* C15: for a notebook task, after every invocation has ended (the notebook
\* executed, or its loading, the pre-process hook or the execution raised, or
\* on_finish itself raised), on_finish has run and the task no longer holds
\* the notebook handle.
C15_NotebookReleased ==
    last.op = "notebook_call" =>
        /\ "on_finish" \in last.hooks => Len(HookCalls("on_finish")) = 1
        /\ tasks[last.iid]._notebook = Unbound

\* the position of step e among the steps of the invocation described by
\* last, 0 when the step was not taken
StepAt(e) ==
    LET at == {k \in 1..Len(last.events) : last.events[k].e = e}
    IN IF at = {} THEN 0 ELSE CHOOSE k \in at : \A j \in at : j <= k

\* C16: within one invocation the steps occur in a fixed order: the run
\* record is appended before the action is invoked; the success (fail) record
\* is appended before on_success (on_failure) is invoked; on_finish is invoked
\* after on_success/on_failure and as the last step before control returns or
\* the failure propagates; on_success and on_failure are never both invoked.
C16_StepOrder ==
    last.op = "call" =>
        /\ StepAt("log_running") = 1 /\ StepAt("execute_action") = 2
        /\ last.log0[last.at].action = "run"
        /\ StepAt("on_success") # 0 =>
              /\ StepAt("log_success") # 0
              /\ StepAt("log_success") < StepAt("on_success")
        /\ StepAt("on_failure") # 0 =>
              /\ StepAt("log_failure") # 0
              /\ StepAt("log_failure") < StepAt("on_failure")
        /\ StepAt("on_finish") # 0 =>
              /\ StepAt("on_finish") = Len(last.events)
              /\ Len(HookCalls("on_finish")) = 1
        /\ ~(StepAt("on_success") # 0 /\ StepAt("on_failure") # 0)
        /\ \A k \in 1..Len(last.events) : \A j \in 1..Len(last.events) :
              (last.events[k].e = last.events[j].e) => k = j

\* an invocation has taken every step of the success path, hooks included
C16_Witness ==
    /\ last.op = "call" /\ last.result = "returned"
    /\ [k \in 1..Len(last.events) |-> last.events[k].e]
          = <<"log_running", "execute_action", "log_success", "on_success", "on_finish">>

\* C17: no invocation that has ended leaves the task in state run: whenever a
\* call has terminated, by returning or by raising anything (a failure of the
\* action, an interruption raised inside the action, a raising callback), the
\* latest log record of the task is success or fail.
C17_EndedCallNotRunning ==
    last.op = "call" => LatestAction(log, last.name) \in {"success", "fail"}

\* C18: a task construction that fails leaves the registry unchanged: if
\* constructing raises at any point (duplicate name, invalid cadence
\* expression given as execution, ...), the registry afterwards contains
\* exactly the entries it had before, so the name is free for a later
\* construction.
C18_FailedConstructionLeavesRegistry ==
    (last.op = "construct" /\ last.result # "ok") => TASKS = last.TASKS0

\* the records of task n in log l
RecordsOf(l, n) == SelectSeq(l, LAMBDA r : r.task_name = n)

\* C19: in the log of any one task two run records are never adjacent:
\* between any two run records of a task there is a success, fail, terminate
\* or crash_release record, for every sequence of invocations of that task
\* (also one started while status(task) is run).
C19_NoAdjacentRuns ==
    \A n \in Names :
        LET own == RecordsOf(log, n)
        IN \A k \in 1..(Len(own) - 1) :
              ~(own[k].action = "run" /\ own[k + 1].action = "run")

\* C20: constructing a task whose latest log record is not run (no record,
\* success, fail, terminate or crash_release) appends no record at all: the
\* log and the status are the same after the construction as before, so
\* repeated restarts never add crash_release records to a task that was not
\* running.
C20_ConstructionAppendsNothing ==
    (/\ last.op = "construct" /\ last.result = "ok"
     /\ LatestAction(last.log0, last.name) # "run")
    => /\ log = last.log0
       /\ status(log, last.name) = status(last.log0, last.name)

\* a task released by an earlier construction is constructed again after a
\* restart, and nothing is appended
C20_Witness ==
    /\ last.op = "construct" /\ last.result = "ok"
    /\ LatestAction(last.log0, last.name) = "crash_release"
    /\ log = last.log0

====
